---- MODULE Spec2Model ----
(***************************************************************************)
(* Model of instagram-to-mealie's scraper core:                            *)
(*   scrapers/scrape_for_mealie.py  scrape_recipe_for_mealie (assembly run) *)
(*   scrapers/manage_browser.py     open_browser, close_browser            *)
(*   scrapers/ai_service.py         extract_json_from_response,            *)
(*                                  send_json_prompt, send_raw_prompt,     *)
(*                                  initialize_chat                        *)
(* Four specifications share the variables:                                *)
(*   Spec         one assembly run, from the caption to the final status   *)
(*   SpecExtract  send_json_prompt: a response, then the extraction chain  *)
(*   SpecLocate   input location and prompt entry of initialize_chat and   *)
(*                send_raw_prompt over a small DOM                         *)
(*   SpecHung     the same two functions against a page that never         *)
(*                responds, with fairness, for termination                 *)
(***************************************************************************)
EXTENDS Integers, Sequences, FiniteSets, TLC

VARIABLES
    \* ---- scrape_recipe_for_mealie
    pc,         \* position in scrape_recipe_for_mealie
    browser,    \* the WebDriver process: "none", "started", "quit", "quit_error"
    full_json,  \* the recipe document being assembled (key -> value)
    results,    \* step -> the fragment process_recipe_part returned, or Unasked
    merged,     \* history: the mappings merged into full_json, in order
    io,         \* history: outcome of each external call of the run
    pending,    \* what the try block ended with, before the finally clause
    status,     \* what the caller sees: "running", "success", "error"
    prompts,    \* history: the prompts handed to the chat, in order
    \* ---- extract_json_from_response / send_json_prompt
    epc,        \* position in send_json_prompt / extract_json_from_response
    response,   \* what send_raw_prompt returned: NoResponse or a sequence of elements
    result,     \* the value extract_json_from_response returns
    attempts,   \* history: every json.loads call, <<strategy, text, parsed?>>
    ran,        \* history: the strategies run so far, in order
    raised,     \* TRUE when an exception left extract_json_from_response
    artifacts,  \* history: the diagnostic dumps attempted, in order
    \* ---- initialize_chat / send_raw_prompt input location
    lpc,        \* position in initialize_chat / send_raw_prompt
    dom,        \* the page: the host element, the shadow and light input lists
    fn,         \* which function runs: "initialize_chat" or "send_raw_prompt"
    shadowRoot, \* TRUE when shadow_root is not None
    tier,       \* the tier whose candidates are used: "none", "shadow", "light"
    target,     \* index (in the tier's list) of the element chosen, 0 if none
    forced,     \* TRUE when the element was chosen by the forced fallback
    events,     \* history: what was dispatched to the page and how each wait
                \* for the submit button ended, in order
    ret,        \* what the function returned: "running", "True", "False", "None", "html"
    waited      \* seconds the WebDriverWait in progress has been polling

runVars == <<pc, browser, full_json, results, merged, io, pending, status, prompts>>
extVars == <<epc, response, result, attempts, ran, raised, artifacts>>
locVars == <<lpc, dom, fn, shadowRoot, tier, target, forced, events, ret, waited>>
vars == <<runVars, extVars, locVars>>

(***************************************************************************)
(* JSON values of the assembly run.  Every value is a record, so that any  *)
(* two values can be compared: a string is [scalar |-> s], an object is a  *)
(* record of its own fields.                                               *)
(***************************************************************************)
Str(s) == [scalar |-> s]
Null == [null |-> "null"]
EmptyMap == [k \in {} |-> Null]

\* a deep merge: a nested object of m is merged into the document's field by field
UpdateDeep(doc, m) ==
    [k \in (DOMAIN doc) \cup (DOMAIN m) |->
        IF k \in DOMAIN m /\ k \in DOMAIN doc
            THEN [f \in (DOMAIN doc[k]) \cup (DOMAIN m[k]) |->
                    IF f \in DOMAIN m[k] THEN m[k][f] ELSE doc[k][f]]
            ELSE IF k \in DOMAIN m THEN m[k] ELSE doc[k]]

\* dict.update(m): every top-level key of m replaces the document's key whole
Update(doc, m) ==
    [k \in (DOMAIN doc) \cup (DOMAIN m) |-> IF k \in DOMAIN m THEN m[k] ELSE doc[k]]

\* A fragment as process_recipe_part returns it.  kind: what JSON value it is;
\* truthy: Python truthiness; mergeable: dict.update accepts it (a mapping, or
\* an array of key/value pairs); map: the key/value pairs it carries.
Frag(kind, truthy, mergeable, map) ==
    [kind |-> kind, truthy |-> truthy, mergeable |-> mergeable, map |-> map]
NoneFrag == Frag("none", FALSE, FALSE, EmptyMap)
Unasked == Frag("unasked", FALSE, FALSE, EmptyMap)
Obj(map) == Frag("object", DOMAIN map # {}, TRUE, map)

EmptyObj == Obj(EmptyMap)
\* a truthy scalar such as 5 or "salt": dict.update raises TypeError/ValueError
ScalarFrag == Frag("scalar", TRUE, FALSE, EmptyMap)
\* a truthy array that is not a list of pairs, ["salt", "pepper"]: update raises
ArrayFrag == Frag("array", TRUE, FALSE, EmptyMap)
\* an array of pairs, [["name", "P"]]: dict.update accepts it as name -> "P"
PairsFrag == Frag("array", TRUE, TRUE, [k \in {"name"} |-> Str("P")])

NameA == Obj([k \in {"name"} |-> Str("A")])
NameB == Obj([k \in {"name"} |-> Str("B")])
NutCal == Obj([k \in {"nutrition"} |-> [calories |-> "100"]])
NutFat == Obj([k \in {"nutrition"} |-> [fatContent |-> "5"]])
Instr == Obj([k \in {"recipeInstructions"} |-> Str("S")])
Info == Obj([k \in {"author", "datePublished"} |->
                IF k = "author" THEN Str("X") ELSE Str("2001-01-01")])
Ingr == Obj([k \in {"recipeIngredient"} |-> Str("L")])

StepNames == <<"instructions", "info", "ingredients", "name", "nutrition">>
Steps == {StepNames[i] : i \in 1..Len(StepNames)}

\* What the chat may answer to any prompt, whatever the prompt asked for
CommonFragments == {NoneFrag, EmptyObj, ScalarFrag, PairsFrag, NameA, NutCal}
\* The answers each prompt asks for
OwnFragments(s) ==
    CASE s = "instructions" -> {Instr}
      [] s = "info" -> {Info}
      [] s = "ingredients" -> {Ingr, ArrayFrag}
      [] s = "name" -> {NameB}
      [] s = "nutrition" -> {NutFat}
StepFragments(s) == CommonFragments \cup OwnFragments(s)

\* json_parts[2] and json_parts[5], merged unconditionally
JsonPart2 == [k \in {"interactionStatistic"} |-> [type |-> "InteractionCounter"]]
JsonPart5 == [k \in {"suitableForDiet"} |-> Null]
\* datetime.now().strftime("%Y-%m-%d")
Today == Str("2026-11-01")

\* the test  if instructions_res:  and its four siblings
Truthy(f) == f.kind # "none" /\ f.truthy

\* a None fragment treated as fatal
MergeRaisesOnNone(s, f) ==
    f.kind = "none" \/ (Truthy(f) /\ (~f.mergeable \/ (s = "name" /\ f.kind # "object")))

\* Does merging fragment f at step s raise inside the try block?  update raises
\* on a value that is no mapping and no list of pairs; after the name step's
\* update, name_res.get raises on anything that is not a dict.
MergeRaises(s, f) ==
    Truthy(f) /\ (~f.mergeable \/ (s = "name" /\ f.kind # "object"))

\* full_json after step s returned f: update runs before name_res.get
MergeStep(doc, f) ==
    IF Truthy(f) /\ f.mergeable THEN Update(doc, f.map) ELSE doc

\* the statement that follows step s in the try block
AfterStep(s) ==
    CASE s = "instructions" -> "info"
      [] s = "info" -> "ingredients"
      [] s = "ingredients" -> "interaction"
      [] s = "name" -> "nutrition"
      [] s = "nutrition" -> "diet"

(***************************************************************************)
(* open_browser() as the run calls it (no url, no platform): start the      *)
(* driver, navigate to duck.ai, navigate to the chat page and wait for the  *)
(* chat input.  Nothing in open_browser quits a driver it started.          *)
(***************************************************************************)
OpenOutcomes == {"driver_error", "navigate_error", "chat_timeout", "chat_error", "ok"}
OpenBrowserEffect(o) == IF o = "driver_error" THEN "none" ELSE "started"

\* close_browser(browser): quit() when the browser is truthy, errors logged
CloseBrowserEffect(b, q) ==
    IF b = "started" THEN (IF q = "ok" THEN "quit" ELSE "quit_error") ELSE b

IoInit == [caption |-> "unset", open |-> "unset", init |-> "unset",
           save |-> "unset", send |-> "unset", quit |-> "unset"]

RunInit ==
    /\ pc = "start"
    /\ browser = "none"
    /\ full_json = EmptyMap
    /\ results = [s \in Steps |-> Unasked]
    /\ merged = <<>>
    /\ io = IoInit
    /\ pending = "none"
    /\ status = "running"
    /\ prompts = <<>>

RunIdle ==
    /\ pc = "idle"
    /\ browser = "none"
    /\ full_json = EmptyMap
    /\ results = [s \in Steps |-> Unasked]
    /\ merged = <<>>
    /\ io = IoInit
    /\ pending = "none"
    /\ status = "running"
    /\ prompts = <<>>

\* an exception that leaves the function before the try block is entered
RaiseOutside ==
    /\ pc' = "done"
    /\ status' = "error"
    /\ UNCHANGED pending

\* an exception inside the try block: logged, re-raised, the finally clause runs
RaiseInside ==
    /\ pc' = "finally"
    /\ pending' = "error"
    /\ UNCHANGED status

\* lines 28-35: get_caption_from_post
GetCaption ==
    /\ pc = "start"
    /\ \E r \in {"none", "ok"} :
        /\ io' = [io EXCEPT !.caption = r]
        /\ IF r = "none"
             THEN RaiseOutside
             ELSE pc' = "open" /\ UNCHANGED <<pending, status>>
    /\ UNCHANGED <<browser, full_json, results, merged>>
    /\ UNCHANGED prompts
    /\ UNCHANGED <<extVars, locVars>>

\* lines 38-41: browser = open_browser()
OpenBrowser ==
    /\ pc = "open"
    /\ \E o \in OpenOutcomes :
        /\ io' = [io EXCEPT !.open = o]
        /\ browser' = OpenBrowserEffect(o)
        /\ IF o = "ok"
             THEN pc' = "init" /\ UNCHANGED <<pending, status>>
             ELSE RaiseOutside
    /\ UNCHANGED <<full_json, results, merged>>
    /\ UNCHANGED prompts
    /\ UNCHANGED <<extVars, locVars>>

\* ai_service.py 88-91: the context prompt of initialize_chat carries the caption
Framing(sent) == [mode |-> "context", caption |-> TRUE, sent |-> sent]

\* a prompt of process_recipe_part that repeats the caption
PromptWithCaption(s, sent) == [mode |-> s, caption |-> TRUE, sent |-> sent]

\* ai_service.py 411-454: the prompt of process_recipe_part is built from the
\* mode's wording, the language code and the JSON section, never the caption
Prompt(s, sent) == [mode |-> s, caption |-> FALSE, sent |-> sent]

\* lines 45-47: initialize_chat(browser, caption); it returns True exactly when it
\* has clicked the submit button on the context prompt
InitializeChat ==
    /\ pc = "init"
    /\ \E ok \in {"ok", "fail"} :
        /\ io' = [io EXCEPT !.init = ok]
        /\ prompts' = Append(prompts, Framing(ok = "ok"))
        /\ IF ok = "ok"
             THEN pc' = "instructions" /\ UNCHANGED <<pending, status>>
             ELSE RaiseInside
    /\ UNCHANGED <<browser, full_json, results, merged>>
    /\ UNCHANGED <<extVars, locVars>>

\* lines 95-141: one AI-derived step, process_recipe_part and the merge; a
\* prompt that send_raw_prompt could not submit gives None
Step(s) ==
    /\ pc = s
    /\ \E f \in StepFragments(s), sent \in BOOLEAN :
        /\ ~sent => f = NoneFrag
        /\ prompts' = Append(prompts, Prompt(s, sent))
        /\ results' = [results EXCEPT ![s] = f]
        /\ full_json' = MergeStep(full_json, f)
        /\ merged' = IF Truthy(f) /\ f.mergeable THEN Append(merged, f.map) ELSE merged
        /\ IF MergeRaises(s, f)
             THEN RaiseInside
             ELSE pc' = AfterStep(s) /\ UNCHANGED <<pending, status>>
    /\ UNCHANGED <<browser, io>>
    /\ UNCHANGED <<extVars, locVars>>

\* line 123: full_json.update(json_parts[2])
MergeInteraction ==
    /\ pc = "interaction"
    /\ full_json' = Update(full_json, JsonPart2)
    /\ merged' = Append(merged, JsonPart2)
    /\ pc' = "name"
    /\ UNCHANGED <<browser, results, io, pending, status>>
    /\ UNCHANGED prompts
    /\ UNCHANGED <<extVars, locVars>>

\* line 144: full_json.update(json_parts[5])
MergeDiet ==
    /\ pc = "diet"
    /\ full_json' = Update(full_json, JsonPart5)
    /\ merged' = Append(merged, JsonPart5)
    /\ pc' = "stamp"
    /\ UNCHANGED <<browser, results, io, pending, status>>
    /\ UNCHANGED prompts
    /\ UNCHANGED <<extVars, locVars>>

\* the date set only when the document has none yet
StampIfAbsent ==
    /\ pc = "stamp"
    /\ full_json' = IF "datePublished" \in DOMAIN full_json
                        THEN full_json
                        ELSE Update(full_json, [k \in {"datePublished"} |-> Today])
    /\ pc' = "save"
    /\ UNCHANGED <<browser, results, merged, io, pending, status>>
    /\ UNCHANGED prompts
    /\ UNCHANGED <<extVars, locVars>>

\* line 147: full_json["datePublished"] = today
Stamp ==
    /\ pc = "stamp"
    /\ full_json' = Update(full_json, [k \in {"datePublished"} |-> Today])
    /\ pc' = "save"
    /\ UNCHANGED <<browser, results, merged, io, pending, status>>
    /\ UNCHANGED prompts
    /\ UNCHANGED <<extVars, locVars>>

\* a failed write of final_json.json swallowed instead of raised
SaveSwallowed ==
    /\ pc = "save"
    /\ \E o \in {"ok", "raise"} : io' = [io EXCEPT !.save = o]
    /\ pc' = "send"
    /\ UNCHANGED <<browser, full_json, results, merged, pending, status>>
    /\ UNCHANGED prompts
    /\ UNCHANGED <<extVars, locVars>>

\* lines 150-160: serialise and write final_json.json
Save ==
    /\ pc = "save"
    /\ \E o \in {"ok", "raise"} :
        /\ io' = [io EXCEPT !.save = o]
        /\ IF o = "ok"
             THEN pc' = "send" /\ UNCHANGED <<pending, status>>
             ELSE RaiseInside
    /\ UNCHANGED <<browser, full_json, results, merged>>
    /\ UNCHANGED prompts
    /\ UNCHANGED <<extVars, locVars>>

\* lines 164-170: send_recipe, then return the success result
Send ==
    /\ pc = "send"
    /\ \E o \in {"ok", "raise"} :
        /\ io' = [io EXCEPT !.send = o]
        /\ IF o = "ok"
             THEN pc' = "finally" /\ pending' = "success" /\ UNCHANGED status
             ELSE RaiseInside
    /\ UNCHANGED <<browser, full_json, results, merged>>
    /\ UNCHANGED prompts
    /\ UNCHANGED <<extVars, locVars>>

\* lines 176-178: finally: close_browser(browser); then the return or the re-raise
Finally ==
    /\ pc = "finally"
    /\ \E q \in {"ok", "raise"} :
        /\ io' = [io EXCEPT !.quit = q]
        /\ browser' = CloseBrowserEffect(browser, q)
    /\ status' = pending
    /\ pc' = "done"
    /\ UNCHANGED <<full_json, results, merged, pending>>
    /\ UNCHANGED prompts
    /\ UNCHANGED <<extVars, locVars>>

RunNext ==
    \/ GetCaption
    \/ OpenBrowser
    \/ InitializeChat
    \/ \E s \in Steps : Step(s)
    \/ MergeInteraction
    \/ MergeDiet
    \/ Stamp
    \/ Save
    \/ Send
    \/ Finally

(***************************************************************************)
(* extract_json_from_response.                                             *)
(* A text is a sequence of tokens.  "k", "v" are the string literals "k"   *)
(* and "v"; "1" is a number; "null" is null; "w" is a word of prose; "_"  *)
(* is white space; "fence" is a triple backtick; "json" is the tag after *)
(* it, with its newline.                                                   *)
(* A response is a sequence of elements [tag, text]: tag "code_json" is    *)
(* <code class="language-json">, "pre" is <pre>, "pre_code_json" is        *)
(* <pre><code class="language-json">, "p" is any other text element.       *)
(***************************************************************************)
StrToks == {"k", "v"}
NumToks == {"1"}
ScalarToks == StrToks \cup NumToks \cup {"null"}

\* len(s) of a token, in characters
TokLen(tok) ==
    CASE tok \in StrToks -> 3
      [] tok = "null" -> 4
      [] tok = "w" -> 4
      [] tok = "fence" -> 3
      [] tok = "json" -> 5
      [] OTHER -> 1

RECURSIVE CharLen(_)
CharLen(t) == IF t = <<>> THEN 0 ELSE TokLen(Head(t)) + CharLen(Tail(t))

\* white space dropped: json.loads ignores it between tokens
RECURSIVE Squeeze(_)
Squeeze(t) ==
    IF t = <<>> THEN <<>>
    ELSE IF Head(t) = "_" THEN Squeeze(Tail(t))
    ELSE <<Head(t)>> \o Squeeze(Tail(t))

\* str.strip(): leading and trailing white space dropped
RECURSIVE LStrip(_)
LStrip(t) == IF t # <<>> /\ Head(t) = "_" THEN LStrip(Tail(t)) ELSE t
RECURSIVE RStrip(_)
RStrip(t) ==
    IF t # <<>> /\ t[Len(t)] = "_" THEN RStrip(SubSeq(t, 1, Len(t) - 1)) ELSE t
Strip(t) == RStrip(LStrip(t))

\* The JSON grammar by recursive descent over a squeezed text: the index after
\* the value (members, elements) that starts at i, or 0 when there is none.
RECURSIVE PValue(_, _), PMembers(_, _), PElements(_, _)
PValue(t, i) ==
    IF i > Len(t) THEN 0
    ELSE IF t[i] \in ScalarToks THEN i + 1
    ELSE IF t[i] = "{"
        THEN IF i + 1 <= Len(t) /\ t[i + 1] = "}" THEN i + 2 ELSE PMembers(t, i + 1)
    ELSE IF t[i] = "["
        THEN IF i + 1 <= Len(t) /\ t[i + 1] = "]" THEN i + 2 ELSE PElements(t, i + 1)
    ELSE 0
PMembers(t, i) ==
    IF i + 1 <= Len(t) /\ t[i] \in StrToks /\ t[i + 1] = ":"
        THEN LET j == PValue(t, i + 2)
             IN  IF j = 0 \/ j > Len(t) THEN 0
                 ELSE IF t[j] = "}" THEN j + 1
                 ELSE IF t[j] = "," THEN PMembers(t, j + 1)
                 ELSE 0
        ELSE 0
PElements(t, i) ==
    LET j == PValue(t, i)
    IN  IF j = 0 \/ j > Len(t) THEN 0
        ELSE IF t[j] = "]" THEN j + 1
        ELSE IF t[j] = "," THEN PElements(t, j + 1)
        ELSE 0

WellFormed(t) == LET s == Squeeze(t) IN s # <<>> /\ PValue(s, 1) = Len(s) + 1

\* A Python value: None, or a JSON value written as its squeezed text
None == [some |-> FALSE, val |-> <<>>]
Some(t) == [some |-> TRUE, val |-> t]

\* json.loads(t): ok is FALSE when it raises; null loads as None
Loads(t) ==
    IF WellFormed(t)
        THEN [ok |-> TRUE,
              val |-> IF Squeeze(t) = <<"null">> THEN None ELSE Some(Squeeze(t))]
        ELSE [ok |-> FALSE, val |-> None]

\* ---- the markup, as BeautifulSoup sees it
El(tag, text) == [tag |-> tag, text |-> text]
CodeJsonTags == {"code_json", "pre_code_json"}
PreTags == {"pre", "pre_code_json"}

\* find_all: the texts of the elements with one of the tags, in document order
RECURSIVE SelectTags(_, _)
SelectTags(els, tags) ==
    IF els = <<>> THEN <<>>
    ELSE (IF Head(els).tag \in tags THEN <<Head(els).text>> ELSE <<>>)
            \o SelectTags(Tail(els), tags)

\* soup.get_text("\n"): the text nodes in document order, joined by a newline
RECURSIVE FullText(_)
FullText(els) ==
    IF els = <<>> THEN <<>>
    ELSE IF Len(els) = 1 THEN els[1].text
    ELSE els[1].text \o <<"_">> \o FullText(Tail(els))

\* first index j >= i with t[j] = tok, or 0
RECURSIVE IndexFrom(_, _, _)
IndexFrom(t, tok, i) ==
    IF i > Len(t) THEN 0
    ELSE IF t[i] = tok THEN i
    ELSE IndexFrom(t, tok, i + 1)

\* re.findall of  fence (?:json\n)? ([\s\S]*?) fence  : the captured groups
RECURSIVE FenceBlocks(_, _)
FenceBlocks(t, i) ==
    LET o == IndexFrom(t, "fence", i)
        b == IF o + 1 <= Len(t) /\ t[o + 1] = "json" THEN o + 2 ELSE o + 1
        c == IndexFrom(t, "fence", b)
    IN  IF o = 0 \/ c = 0 THEN <<>>
        ELSE <<SubSeq(t, b, c - 1)>> \o FenceBlocks(t, c + 1)

\* re.findall of  \{[\s\S]*?\}  : each match runs from a "{" to the nearest "}"
RECURSIVE BraceMatches(_, _)
BraceMatches(t, i) ==
    LET o == IndexFrom(t, "{", i)
        c == IndexFrom(t, "}", o + 1)
    IN  IF o = 0 \/ c = 0 THEN <<>>
        ELSE <<SubSeq(t, o, c)>> \o BraceMatches(t, c + 1)

\* sorted(candidates, key=lambda s: -len(s)): longest first, ties in their order
RECURSIVE SortByLen(_)
SortByLen(c) ==
    IF c = <<>> THEN <<>>
    ELSE LET best == CHOOSE i \in 1..Len(c) :
                        /\ \A j \in 1..Len(c) : CharLen(c[j]) <= CharLen(c[i])
                        /\ \A j \in 1..(i - 1) : CharLen(c[j]) < CharLen(c[i])
         IN  <<c[best]>> \o SortByLen(SubSeq(c, 1, best - 1) \o SubSeq(c, best + 1, Len(c)))

RECURSIVE MapStrip(_)
MapStrip(c) == IF c = <<>> THEN <<>> ELSE <<Strip(Head(c))>> \o MapStrip(Tail(c))

\* the <pre> texts strategy 2 hands to json.loads: get_text(strip=True), kept
\* when it starts with "{" or "["
RECURSIVE PreCandidates(_)
PreCandidates(c) ==
    IF c = <<>> THEN <<>>
    ELSE LET text == Strip(Head(c))
         IN  (IF text # <<>> /\ text[1] \in {"{", "["} THEN <<text>> ELSE <<>>)
                \o PreCandidates(Tail(c))

\* the first language-json code block instead of the last
PickFirstBlock(blocks) == blocks[1]

\* block[-1] of the language-json code blocks
PickBlock(blocks) == blocks[Len(blocks)]

\* The texts strategy n hands to json.loads, in the order it tries them
Candidates(n, els) ==
    CASE n = 1 -> LET blocks == SelectTags(els, CodeJsonTags)
                  IN  IF blocks = <<>> THEN <<>> ELSE <<PickBlock(blocks)>>
      [] n = 2 -> PreCandidates(SelectTags(els, PreTags))
      [] n = 3 -> MapStrip(FenceBlocks(FullText(els), 1))
      [] n = 4 -> SortByLen(BraceMatches(FullText(els), 1))

\* try: return json.loads(c)  except: continue   over the candidates in order:
\* the json.loads calls made, up to and including the first that parses
RECURSIVE TryEach(_, _)
TryEach(n, c) ==
    IF c = <<>> THEN <<>>
    ELSE LET a == [strategy |-> n, text |-> Head(c), ok |-> Loads(Head(c)).ok]
         IN  IF a.ok THEN <<a>> ELSE <<a>> \o TryEach(n, Tail(c))

\* the <pre> scan ahead of the tagged code block
StrategyOrderSwapped == <<2, 1, 3, 4>>

\* the order in which the function body runs its four strategies
StrategyOrder == <<1, 2, 3, 4>>

\* no outer handler: the exception leaves the function
HandleExceptionMissing == [raised |-> TRUE, result |-> None]

\* except Exception as e: ... return None   (the function's outer handler)
HandleException == [raised |-> FALSE, result |-> None]

\* ---- the inputs of the extraction
MaxBlocks == 2

TObjA == <<"{", "k", ":", "v", "}">>
TObjB == <<"{", "k", ":", "1", "}">>
TNested == <<"{", "k", ":", "{", "k", ":", "v", "}", "}">>
TArr == <<"[", "1", "]">>
TBad == <<"{", "k", ":", "v">>
TProse == <<"w">>
TFenceA == <<"fence", "json", "{", "k", ":", "v", "}", "fence">>
TFenceB == <<"w", "fence", "_", "{", "k", ":", "1", "}", "_", "fence">>
TBraceProse == <<"{", "w", "w", "}">>
TNull == <<"null">>
TPadded == <<"_", "{", "k", ":", "v", "}", "_">>

Texts == {TObjA, TObjB, TNested, TArr, TBad, TProse, TFenceA, TFenceB,
          TBraceProse, TNull, TPadded}
Tags == {"code_json", "pre", "pre_code_json", "p"}
Elements == {El(tag, text) : tag \in Tags, text \in Texts}

NoResponse == [kind |-> "none", els |-> <<>>]
EmptyResponse == [kind |-> "empty", els |-> <<>>]
Html(els) == [kind |-> "html", els |-> els]
Responses ==
    {NoResponse, EmptyResponse}
        \cup {Html(els) : els \in UNION {[1..n -> Elements] : n \in 0..MaxBlocks}}

ExtractInit ==
    /\ epc = "entry"
    /\ response \in Responses
    /\ result = None
    /\ attempts = <<>>
    /\ ran = <<>>
    /\ raised = FALSE
    /\ artifacts = <<>>

ExtractIdle ==
    /\ epc = "idle"
    /\ response = NoResponse
    /\ result = None
    /\ attempts = <<>>
    /\ ran = <<>>
    /\ raised = FALSE
    /\ artifacts = <<>>

\* lines 329-332: the falsy-response return, then BeautifulSoup(response)
ExtractEntry ==
    /\ epc = "entry"
    /\ IF response.kind # "html"
         THEN /\ result' = None
              /\ epc' = "done"
              /\ UNCHANGED raised
         ELSE \E soup \in {"ok", "raise"} :
                IF soup = "ok"
                  THEN epc' = "run" /\ UNCHANGED <<result, raised>>
                  ELSE /\ result' = HandleException.result
                       /\ raised' = HandleException.raised
                       /\ epc' = "done"
    /\ UNCHANGED <<response, attempts, ran, artifacts>>
    /\ UNCHANGED <<runVars, locVars>>

\* lines 333-369: the next strategy of the chain; the first json.loads that
\* parses returns its value
RunStrategy ==
    /\ epc = "run"
    /\ Len(ran) < Len(StrategyOrder)
    /\ LET n == StrategyOrder[Len(ran) + 1]
           tries == TryEach(n, Candidates(n, response.els))
           hit == tries # <<>> /\ tries[Len(tries)].ok
       IN  /\ ran' = Append(ran, n)
           /\ attempts' = attempts \o tries
           /\ IF hit
                THEN /\ result' = Loads(tries[Len(tries)].text).val
                     /\ epc' = "done"
                ELSE /\ UNCHANGED result
                     /\ epc' = IF Len(ran) + 1 = Len(StrategyOrder) THEN "fail" ELSE "run"
    /\ UNCHANGED <<response, raised, artifacts>>
    /\ UNCHANGED <<runVars, locVars>>

\* lines 371-372: every strategy failed: a warning is logged, None returned
ExtractFail ==
    /\ epc = "fail"
    /\ result' = None
    /\ epc' = "done"
    /\ UNCHANGED <<response, attempts, ran, raised, artifacts>>
    /\ UNCHANGED <<runVars, locVars>>

ExtractNext ==
    \/ ExtractEntry
    \/ RunStrategy
    \/ ExtractFail

(***************************************************************************)
(* initialize_chat and send_raw_prompt.                                    *)
(* The page: host is the <duck-chat> element ("absent": the wait times     *)
(* out, "no_shadow": host.shadow_root raises, "ok"); shadow and light are  *)
(* what find_elements returns in the shadow root and in the light DOM, or  *)
(* err when find_elements raises.  A candidate is [visible, id, name].     *)
(***************************************************************************)
MaxCands == 2

Cand(visible, id, name) == [visible |-> visible, id |-> id, name |-> name]
CandKinds == {Cand(TRUE, "", "user-prompt"), Cand(FALSE, "", "user-prompt"),
              Cand(FALSE, "state_hidden", ""), Cand(TRUE, "", "State_Hidden")}
CandLists == UNION {[1..n -> CandKinds] : n \in 0..MaxCands}
Found(list) == [err |-> FALSE, list |-> list]
FindError == [err |-> TRUE, list |-> <<>>]
Finds == {FindError} \cup {Found(l) : l \in CandLists}
Doms ==
    {[host |-> "ok", shadow |-> sh, light |-> li] : sh \in Finds, li \in Finds}
        \cup {[host |-> h, shadow |-> Found(<<>>), light |-> li] :
                h \in {"absent", "no_shadow"}, li \in Finds}

\* str.lower() on the attribute values of the page
Lower(a) == IF a = "State_Hidden" THEN "state_hidden" ELSE a

\* the known hidden state field: id or name equal to state_hidden
IsDecoy(c) == Lower(c.id) = "state_hidden" \/ Lower(c.name) = "state_hidden"

\* the filter of lines 77 and 214: _is_visible(c) and not the state field
Keeps(c) == c.visible /\ ~IsDecoy(c)

\* index of the last candidate the filter keeps, 0 when it leaves none
LastKept(cands) ==
    IF \E i \in 1..Len(cands) : Keeps(cands[i])
        THEN CHOOSE i \in 1..Len(cands) :
                Keeps(cands[i]) /\ \A j \in (i + 1)..Len(cands) : ~Keeps(cands[j])
        ELSE 0

\* index of visible_candidates[0] in the candidates, 0 when the filter leaves none
FirstKept(cands) ==
    IF \E i \in 1..Len(cands) : Keeps(cands[i])
        THEN CHOOSE i \in 1..Len(cands) :
                Keeps(cands[i]) /\ \A j \in 1..(i - 1) : ~Keeps(cands[j])
        ELSE 0

\* the candidates of the tier in use
TierCands(d, t) ==
    CASE t = "shadow" -> d.shadow.list
      [] t = "light" -> d.light.list
      [] OTHER -> <<>>

\* what each function returns on failure
Failure(f) == IF f = "initialize_chat" THEN "False" ELSE "None"

\* _write_debug_html / _dump_debug / the candidates dump: best effort, a
\* failing write is swallowed and leaves no file (written is FALSE)
Dumped(arts, prefix, w) ==
    Append(arts, [prefix |-> prefix,
                  kind |-> IF prefix = "candidates" THEN "json" ELSE "page",
                  written |-> (w = "ok")])

\* send_raw_prompt, lines 237-251: the forced fallback takes candidates[0]
ForcedIndex(cands) == IF cands = <<>> THEN 0 ELSE 1

LocInit ==
    /\ lpc = "host"
    /\ dom \in Doms
    /\ fn \in {"initialize_chat", "send_raw_prompt"}
    /\ shadowRoot = FALSE
    /\ tier = "none"
    /\ target = 0
    /\ forced = FALSE
    /\ events = <<>>
    /\ ret = "running"
    /\ waited = 0

LocIdle ==
    /\ lpc = "idle"
    /\ dom = [host |-> "absent", shadow |-> Found(<<>>), light |-> Found(<<>>)]
    /\ fn = "none"
    /\ shadowRoot = FALSE
    /\ tier = "none"
    /\ target = 0
    /\ forced = FALSE
    /\ events = <<>>
    /\ ret = "running"
    /\ waited = 0

\* the function returns v
Return(v) ==
    /\ ret' = v
    /\ lpc' = "done"

\* seconds between two polls of a wait that the model tells apart
PollTick == 10

\* the timeouts of the four WebDriverWait calls, in seconds
InitHostTimeout == 20
RawHostTimeout == 6
InitSubmitTimeout == 30
RawSubmitTimeout == 60

HostTimeout(f) == IF f = "initialize_chat" THEN InitHostTimeout ELSE RawHostTimeout
SubmitTimeout(f) == IF f = "initialize_chat" THEN InitSubmitTimeout ELSE RawSubmitTimeout

\* a wait that never gives up
NeverExpired(elapsed, limit) == FALSE

\* WebDriverWait(browser, limit): the wait gives up once limit seconds have passed
Expired(elapsed, limit) == elapsed >= limit

\* initialize_chat 20-30, send_raw_prompt 176-182: the bounded wait for the host;
\* a host that is there ends the wait, one that never appears ends it by timeout
FindHost ==
    /\ lpc = "host"
    /\ \/ /\ dom.host # "absent"
          /\ shadowRoot' = (dom.host = "ok")
       \/ /\ dom.host = "absent"
          /\ Expired(waited, HostTimeout(fn))
          /\ shadowRoot' = FALSE
    /\ lpc' = "gather"
    /\ waited' = 0
    /\ UNCHANGED <<dom, fn, tier, target, forced, events, ret, artifacts>>
    /\ UNCHANGED <<runVars, epc, response, result, attempts, ran, raised>>

\* initialize_chat 43-64, send_raw_prompt 184-203: the shadow root first, the
\* light DOM when that gave no candidate
Gather ==
    /\ lpc = "gather"
    /\ LET sh == IF shadowRoot /\ ~dom.shadow.err THEN dom.shadow.list ELSE <<>>
       IN  IF sh # <<>>
             THEN /\ tier' = "shadow"
                  /\ lpc' = "choose"
                  /\ UNCHANGED <<ret, artifacts>>
             ELSE IF dom.light.err
               THEN \E w \in {"ok", "fail"} :
                        /\ artifacts' = Dumped(artifacts, "no_input", w)
                        /\ Return(Failure(fn))
                        /\ UNCHANGED tier
               ELSE /\ tier' = "light"
                    /\ lpc' = "choose"
                    /\ UNCHANGED <<ret, artifacts>>
    /\ UNCHANGED <<dom, fn, shadowRoot, target, forced, events>>
    /\ UNCHANGED <<runVars, epc, response, result, attempts, ran, raised, waited>>

\* initialize_chat 76-85: the first kept candidate, or False
ChooseInit ==
    /\ lpc = "choose"
    /\ fn = "initialize_chat"
    /\ LET k == FirstKept(TierCands(dom, tier))
       IN  IF k # 0
             THEN /\ target' = k
                  /\ lpc' = "fill"
                  /\ UNCHANGED <<ret, artifacts>>
             ELSE \E w \in {"ok", "fail"} :
                    /\ artifacts' = Dumped(artifacts, "no_visible_input", w)
                    /\ Return("False")
                    /\ UNCHANGED target
    /\ UNCHANGED <<dom, fn, shadowRoot, tier, forced, events>>
    /\ UNCHANGED <<runVars, epc, response, result, attempts, ran, raised, waited>>

\* send_raw_prompt 214-253: the first kept candidate; when none is kept, the
\* candidates dump and then the forced write into candidates[0]
ChooseRaw ==
    /\ lpc = "choose"
    /\ fn = "send_raw_prompt"
    /\ LET cands == TierCands(dom, tier)
           k == FirstKept(cands)
           f == ForcedIndex(cands)
       IN  IF k # 0
             THEN /\ target' = k
                  /\ lpc' = "fill"
                  /\ UNCHANGED <<ret, artifacts, forced, events>>
             ELSE \E w1 \in {"ok", "fail"}, script \in {"ok", "raise"} :
                    LET a1 == Dumped(artifacts, "candidates", w1)
                    IN  IF f = 0 \/ script = "raise"
                          THEN \E w2 \in {"ok", "fail"} :
                                /\ artifacts' = Dumped(a1, "forced_fallback_failed", w2)
                                /\ Return("None")
                                /\ UNCHANGED <<target, forced, events>>
                          ELSE /\ artifacts' = a1
                               /\ target' = f
                               /\ forced' = TRUE
                               /\ events' = Append(events, "set_value")
                               /\ lpc' = "fill"
                               /\ UNCHANGED ret
    /\ UNCHANGED <<dom, fn, shadowRoot, tier>>
    /\ UNCHANGED <<runVars, epc, response, result, attempts, ran, raised, waited>>

\* initialize_chat 88-108, send_raw_prompt 255-269: focus the element and set its
\* value, with the input event
Fill ==
    /\ lpc = "fill"
    /\ \E script \in {"ok", "raise"} :
        IF script = "ok"
          THEN /\ events' = Append(events, "set_value")
               /\ lpc' = "submit"
               /\ UNCHANGED <<ret, artifacts>>
          ELSE \E w \in {"ok", "fail"} :
                /\ artifacts' = Dumped(artifacts,
                        IF fn = "initialize_chat" THEN "fill_submit_error"
                                                  ELSE "set_value_failed", w)
                /\ Return(Failure(fn))
                /\ UNCHANGED events
    /\ UNCHANGED <<dom, fn, shadowRoot, tier, target, forced>>
    /\ UNCHANGED <<runVars, epc, response, result, attempts, ran, raised, waited>>

\* The send buttons found: a list of visibility flags per tier
SendLists == {<<>>, <<FALSE>>, <<TRUE>>}

\* initialize_chat 110-129: the first submit button, shadow root first; a click
\* that raises is caught by the handler of line 143
SubmitInit ==
    /\ lpc = "submit"
    /\ fn = "initialize_chat"
    /\ \E sh \in SendLists, li \in SendLists, click \in {"ok", "raise"}, w \in {"ok", "fail"} :
        LET found == (shadowRoot /\ sh # <<>>) \/ li # <<>>
        IN  IF ~found
              THEN /\ artifacts' = Dumped(artifacts, "no_send_button", w)
                   /\ Return("False")
                   /\ UNCHANGED events
              ELSE IF click = "raise"
                THEN /\ artifacts' = Dumped(artifacts, "fill_submit_error", w)
                     /\ Return("False")
                     /\ UNCHANGED events
                ELSE /\ events' = Append(events, "click")
                     /\ lpc' = "await"
                     /\ UNCHANGED <<ret, artifacts>>
    /\ UNCHANGED <<dom, fn, shadowRoot, tier, target, forced>>
    /\ UNCHANGED <<runVars, epc, response, result, attempts, ran, raised, waited>>

\* send_raw_prompt 271-303: the first visible send button, shadow root first;
\* the click, then the dispatched MouseEvent when the click raises
SubmitRaw ==
    /\ lpc = "submit"
    /\ fn = "send_raw_prompt"
    /\ \E sh \in SendLists, li \in SendLists,
          click \in {"ok", "fallback_ok", "raise"}, w \in {"ok", "fail"} :
        LET sends == IF shadowRoot /\ sh # <<>> THEN sh ELSE li
            visible == sends # <<>> /\ sends[1]
        IN  IF ~visible
              THEN /\ artifacts' = Dumped(artifacts, "no_send_button", w)
                   /\ Return("None")
                   /\ UNCHANGED events
              ELSE IF click = "raise"
                THEN /\ artifacts' = Dumped(artifacts, "send_click_failed", w)
                     /\ Return("None")
                     /\ UNCHANGED events
                ELSE /\ events' = Append(events, "click")
                     /\ lpc' = "await"
                     /\ UNCHANGED <<ret, artifacts>>
    /\ UNCHANGED <<dom, fn, shadowRoot, tier, target, forced>>
    /\ UNCHANGED <<runVars, epc, response, result, attempts, ran, raised, waited>>

\* a timeout of the wait treated as a failure of the call
AwaitTimeoutFatal(f, wait, read) ==
    IF wait = "timeout" THEN Failure(f)
    ELSE IF f = "initialize_chat" THEN "True"
    ELSE IF read = "ok" THEN "html" ELSE "None"

\* initialize_chat 131-141, send_raw_prompt 305-313: what the function does once
\* the wait for the submit button has ended (wait is "completed" or "timeout"):
\* a timeout is logged only; send_raw_prompt then reads browser.page_source,
\* and a read that raises goes to the handler of line 315
AwaitResult(f, wait, read) ==
    IF f = "initialize_chat" THEN "True"
    ELSE IF read = "ok" THEN "html" ELSE "None"

\* the end of the wait and the return
AwaitEnd(wait) ==
    \E read \in {"ok", "raise"}, w \in {"ok", "fail"} :
        /\ Return(AwaitResult(fn, wait, read))
        /\ events' = Append(events, wait)
        /\ artifacts' = IF fn = "send_raw_prompt" /\ read = "raise"
                          THEN Dumped(artifacts, "send_raw_prompt_error", w)
                          ELSE artifacts
        /\ waited' = 0

\* initialize_chat 131-134, send_raw_prompt 305-307: a poll finds no disabled
\* submit button, the wait is over
AwaitCompleted ==
    /\ lpc = "await"
    /\ AwaitEnd("completed")
    /\ UNCHANGED <<dom, fn, shadowRoot, tier, target, forced>>
    /\ UNCHANGED <<runVars, epc, response, result, attempts, ran, raised>>

\* initialize_chat 135-138, send_raw_prompt 308-309: the wait's time is up, the
\* TimeoutException is caught
AwaitTimedOut ==
    /\ lpc = "await"
    /\ Expired(waited, SubmitTimeout(fn))
    /\ AwaitEnd("timeout")
    /\ UNCHANGED <<dom, fn, shadowRoot, tier, target, forced>>
    /\ UNCHANGED <<runVars, epc, response, result, attempts, ran, raised>>

\* WebDriverWait.until / until_not: a poll that does not end the wait, the time
\* waited grows
Poll ==
    /\ \/ lpc = "host" /\ ~Expired(waited, HostTimeout(fn))
       \/ lpc = "await" /\ ~Expired(waited, SubmitTimeout(fn))
    /\ LET limit == IF lpc = "host" THEN HostTimeout(fn) ELSE SubmitTimeout(fn)
       IN  waited' = IF waited + PollTick > limit THEN limit ELSE waited + PollTick
    /\ UNCHANGED <<lpc, dom, fn, shadowRoot, tier, target, forced, events, ret, artifacts>>
    /\ UNCHANGED <<runVars, epc, response, result, attempts, ran, raised>>

LocNext ==
    \/ FindHost
    \/ Gather
    \/ ChooseInit
    \/ ChooseRaw
    \/ Fill
    \/ SubmitInit
    \/ SubmitRaw
    \/ AwaitCompleted
    \/ AwaitTimedOut
    \/ Poll

Init == RunInit /\ ExtractIdle /\ LocIdle
Next == RunNext
Spec == Init /\ [][Next]_vars

InitExtract == RunIdle /\ ExtractInit /\ LocIdle
NextExtract == ExtractNext
SpecExtract == InitExtract /\ [][NextExtract]_vars

InitLocate == RunIdle /\ ExtractIdle /\ LocInit
NextLocate == LocNext
SpecLocate == InitLocate /\ [][NextLocate]_vars

\* initialize_chat and send_raw_prompt against a host UI that never responds:
\* the duck-chat host never appears and the disabled submit button never goes
\* away, so no wait completes.  The program is sequential and time passes, so
\* a step that can be taken is taken.
InitHung == InitLocate /\ dom.host = "absent"
NextHung ==
    \/ FindHost
    \/ Gather
    \/ ChooseInit
    \/ ChooseRaw
    \/ Fill
    \/ SubmitInit
    \/ SubmitRaw
    \/ AwaitTimedOut
    \/ Poll
SpecHung == InitHung /\ [][NextHung]_vars /\ WF_vars(NextHung)

(***************************************************************************)
(* Claims about the assembly run (specification Spec)                      *)
(***************************************************************************)
Asked(s) == results[s] # Unasked

\* the fields each prompt of process_recipe_part asks for
StepFields(s) ==
    CASE s = "instructions" -> {"recipeInstructions"}
      [] s = "info" -> {"author", "description", "recipeYield", "prepTime", "cookTime"}
      [] s = "ingredients" -> {"recipeIngredient"}
      [] s = "name" -> {"name"}
      [] s = "nutrition" -> {"nutrition"}

\* step s returned a non-empty value whose merge raises: a value that is no
\* mapping and no list of pairs, or (name step) anything that is not an object
RaisedAt(s) ==
    /\ results[s].kind \notin {"none", "unasked"}
    /\ results[s].truthy
    /\ (~results[s].mergeable \/ (s = "name" /\ results[s].kind # "object"))

\* the keys of the fragments the run merged
MergedStepKeys ==
    UNION {DOMAIN results[s].map : s \in {x \in Steps : Asked(x) /\ results[x].truthy}}
FixedKeys == {"interactionStatistic", "suitableForDiet", "datePublished"}

\* C1: in every terminal state of the run, a browser that was started has been
\* quit (quit() was called on it)
C1_BrowserReleased == pc = "done" => browser # "started"

\* C2 as stated: after initialize succeeded, whichever steps return None (the
\* others returning objects), the run reports success, every step was
\* attempted, the fields of the steps that returned None are absent and the
\* fields of the returned fragments are present
C2_Original ==
    (/\ pc = "done"
     /\ io.init = "ok"
     /\ \A s \in Steps : results[s].kind \in {"none", "object", "unasked"}) =>
        /\ status = "success"
        /\ \A s \in Steps : Asked(s)
        /\ \A s \in Steps :
            results[s] = NoneFrag => StepFields(s) \cap DOMAIN full_json = {}
        /\ \A s \in Steps :
            results[s] # NoneFrag => DOMAIN results[s].map \subseteq DOMAIN full_json

\* C2 amended: a step that returns None (or an empty value) never aborts the
\* run: a step is attempted exactly when no earlier step returned a non-empty
\* fragment whose merge raises; when no merge raised, the document's keys are
\* exactly the keys of the merged fragments plus the three fixed keys; and the
\* run reports success exactly when no merge raised and saving and uploading
\* did not raise
C2_NoneIsNotFatal ==
    (pc = "done" /\ io.init = "ok") =>
        /\ \A i \in 1..Len(StepNames) :
            Asked(StepNames[i]) <=> (\A j \in 1..(i - 1) : ~RaisedAt(StepNames[j]))
        /\ (\A s \in Steps : ~RaisedAt(s)) =>
                DOMAIN full_json = FixedKeys \cup MergedStepKeys
        /\ status = "success" <=>
                /\ \A s \in Steps : ~RaisedAt(s)
                /\ io.save = "ok"
                /\ io.send = "ok"

\* C2 witness: the ingredients step returned None, the run went on to the name
\* step and ended in success without recipeIngredient
C2_Witness ==
    /\ pc = "done"
    /\ status = "success"
    /\ results["ingredients"] = NoneFrag
    /\ results["name"] = NameB
    /\ results["nutrition"] = NutFat
    /\ "recipeIngredient" \notin DOMAIN full_json
    /\ {"name", "nutrition"} \subseteq DOMAIN full_json

\* C3 as stated: the run ends in an error only when the caption source returned
\* nothing or initialize failed
C3_Original ==
    (pc = "done" /\ status = "error") => (io.caption = "none" \/ io.init = "fail")

\* C3 amended: the run ends in an error exactly when the caption source returns
\* nothing, open_browser raises, initialize fails, the merge of a non-empty
\* fragment raises, or saving or uploading raises; otherwise it ends in success
C3_FatalConditions ==
    pc = "done" =>
        /\ status \in {"success", "error"}
        /\ status = "error" <=>
                \/ io.caption = "none"
                \/ io.open \in OpenOutcomes \ {"ok"}
                \/ io.init = "fail"
                \/ \E s \in Steps : RaisedAt(s)
                \/ io.save = "raise"
                \/ io.send = "raise"

\* C3 witness: a run that ended in an error because saving raised, with the
\* caption obtained and initialize successful
C3_Witness ==
    /\ pc = "done"
    /\ status = "error"
    /\ io.caption = "ok"
    /\ io.init = "ok"
    /\ io.save = "raise"

\* index of the last merged mapping that carries key k, 0 when none does
LastWith(k) ==
    IF \E i \in 1..Len(merged) : k \in DOMAIN merged[i]
        THEN CHOOSE i \in 1..Len(merged) :
                /\ k \in DOMAIN merged[i]
                /\ \A j \in (i + 1)..Len(merged) : k \notin DOMAIN merged[j]
        ELSE 0

\* C4: until the date stamp, the document holds exactly the keys of the merged
\* fragments, and the value of each key is the whole value carried by the last
\* merged fragment that contains the key; afterwards only datePublished differs
C4_LastWriteWins ==
    \A k \in (DOMAIN full_json) \cup UNION {DOMAIN merged[i] : i \in 1..Len(merged)} :
        \/ /\ k \in DOMAIN full_json
           /\ LastWith(k) # 0
           /\ full_json[k] = merged[LastWith(k)][k]
        \/ /\ k = "datePublished"
           /\ k \in DOMAIN full_json
           /\ full_json[k] = Today
           /\ pc \in {"save", "send", "finally", "done"}

\* C4 witness: name "A" then name "B" were merged, and nutrition {calories}
\* then nutrition {fatContent}; the document holds "B" and {fatContent} alone
C4_Witness ==
    /\ pc = "done"
    /\ results["instructions"] = NameA
    /\ results["info"] = NutCal
    /\ results["name"] = NameB
    /\ results["nutrition"] = NutFat
    /\ full_json["name"] = Str("B")
    /\ full_json["nutrition"] = [fatContent |-> "5"]
    /\ "recipeInstructions" \notin DOMAIN full_json

(***************************************************************************)
(* Claims about input location (specification SpecLocate)                  *)
(***************************************************************************)
\* C5: whenever an element has been chosen for the prompt, in initialize_chat
\* or in send_raw_prompt, it is not the hidden state field
C5_NeverDecoy ==
    target # 0 => ~IsDecoy(TierCands(dom, tier)[target])

(***************************************************************************)
(* Claims about extract_json_from_response (specification SpecExtract)     *)
(***************************************************************************)
\* some candidate of strategy n parses
ParsesAny(n, els) ==
    \E i \in 1..Len(Candidates(n, els)) : WellFormed(Candidates(n, els)[i])

\* the first well-formed text of a sequence that holds one
FirstWellFormed(c) ==
    c[CHOOSE i \in 1..Len(c) :
        WellFormed(c[i]) /\ \A j \in 1..(i - 1) : ~WellFormed(c[j])]
HasWellFormed(c) == \E i \in 1..Len(c) : WellFormed(c[i])

AllAttemptsFailed == \A i \in 1..Len(attempts) : ~attempts[i].ok

\* C6: the strategies run in the order 1, 2, 3, 4; one runs only when no
\* candidate of any earlier one parsed; and the value returned is that of the
\* first strategy, in that order, with a candidate that parses (None when
\* none has one)
C6_StrategyOrder ==
    /\ \A i \in 1..Len(ran) :
        /\ ran[i] = i
        /\ \A j \in 1..(i - 1) : ~ParsesAny(j, response.els)
    /\ (epc = "done" /\ ran # <<>>) =>
        LET n == Len(ran)
        IN  IF ParsesAny(n, response.els)
              THEN result = Loads(FirstWellFormed(Candidates(n, response.els))).val
              ELSE n = 4 /\ result = None

\* C6 witness: strategies 1 and 2 each made a json.loads call that failed, and
\* strategy 3 returned the value
C6_Witness ==
    /\ epc = "done"
    /\ ran = <<1, 2, 3>>
    /\ result.some
    /\ \E i \in 1..Len(attempts) : attempts[i].strategy = 1 /\ ~attempts[i].ok
    /\ \E i \in 1..Len(attempts) : attempts[i].strategy = 2 /\ ~attempts[i].ok

\* the fenced blocks of the markup in document order: a tagged code block, a
\* pre block, or a triple-backtick fence inside the text of another element
RECURSIVE FencedTexts(_)
FencedTexts(els) ==
    IF els = <<>> THEN <<>>
    ELSE (IF Head(els).tag \in CodeJsonTags \cup PreTags
            THEN <<Head(els).text>>
            ELSE MapStrip(FenceBlocks(Head(els).text, 1)))
         \o FencedTexts(Tail(els))

RECURSIVE OnlyWellFormed(_)
OnlyWellFormed(c) ==
    IF c = <<>> THEN <<>>
    ELSE (IF WellFormed(Head(c)) THEN <<Head(c)>> ELSE <<>>) \o OnlyWellFormed(Tail(c))

\* C7 as stated, in its plainest instance: when all the fenced blocks of the
\* markup have the same form (every element has the same tag) and none of the
\* well-formed ones is null, the value returned is the parse of the last
\* well-formed fenced block
C7_Original ==
    (/\ epc = "done"
     /\ ran # <<>>
     /\ \A i, j \in 1..Len(response.els) : response.els[i].tag = response.els[j].tag) =>
        LET wf == OnlyWellFormed(FencedTexts(response.els))
        IN  (wf # <<>> /\ \A i \in 1..Len(wf) : Squeeze(wf[i]) # <<"null">>) =>
                result = Loads(wf[Len(wf)]).val

\* C7 amended: if the last tagged code block is well-formed, its parse is
\* returned; otherwise, if a pre block that starts with "{" or "[" is
\* well-formed, the parse of the first such pre block; otherwise, if a
\* triple-backtick fence of the rendered text is well-formed, the parse of the
\* first such fence
C7_FencedBlocks ==
    (epc = "done" /\ ran # <<>>) =>
        LET code == SelectTags(response.els, CodeJsonTags)
            pres == PreCandidates(SelectTags(response.els, PreTags))
            fences == MapStrip(FenceBlocks(FullText(response.els), 1))
            codeOk == code # <<>> /\ WellFormed(code[Len(code)])
        IN  /\ codeOk => result = Loads(code[Len(code)]).val
            /\ (~codeOk /\ HasWellFormed(pres)) =>
                    result = Loads(FirstWellFormed(pres)).val
            /\ (~codeOk /\ ~HasWellFormed(pres) /\ HasWellFormed(fences)) =>
                    result = Loads(FirstWellFormed(fences)).val

\* C7 witness: two well-formed pre blocks with different values and no tagged
\* code block; the value of the first was returned
C7_Witness ==
    /\ epc = "done"
    /\ response = Html(<<El("pre", TObjA), El("pre", TObjB)>>)
    /\ result = Some(TObjA)

\* the brace-delimited substrings of a text: from a "{" to a later "}"
BraceSubstrings(t) ==
    {SubSeq(t, i, j) : <<i, j>> \in
        {x \in (1..Len(t)) \X (1..Len(t)) : x[1] < x[2] /\ t[x[1]] = "{" /\ t[x[2]] = "}"}}

\* C8: when all the JSON of the markup is bare text (no tagged code block, no
\* pre block, no fence) and some brace-delimited substring of the text is
\* well-formed JSON, the value returned is the parse of a longest such substring
C8_BareJsonRecovered ==
    (/\ epc = "done"
     /\ ran # <<>>
     /\ \A i \in 1..Len(response.els) : response.els[i].tag = "p"
     /\ IndexFrom(FullText(response.els), "fence", 1) = 0) =>
        LET wf == {c \in BraceSubstrings(FullText(response.els)) : WellFormed(c)}
        IN  wf # {} =>
                \E c \in wf :
                    /\ \A d \in wf : CharLen(d) <= CharLen(c)
                    /\ result = Loads(c).val

\* C9: no exception ever leaves extract_json_from_response, and when no
\* json.loads call succeeded (none was made, or each one failed) it returns None
C9_NoneNeverRaises ==
    /\ raised = FALSE
    /\ (epc = "done" /\ AllAttemptsFailed) => result = None

\* C9 witness: markup on which all four strategies ran, json.loads was called
\* at least twice and failed each time, and None was returned
C9_Witness ==
    /\ epc = "done"
    /\ response.kind = "html"
    /\ ran = <<1, 2, 3, 4>>
    /\ Len(attempts) >= 2
    /\ AllAttemptsFailed
    /\ result = None
    /\ ~raised

\* C10: when all strategies failed on a non-empty HTML response, None is
\* returned and the raw HTML has been written as a diagnostic file
C10_HtmlPersisted ==
    (/\ epc = "done"
     /\ response.kind = "html"
     /\ ran = <<1, 2, 3, 4>>
     /\ AllAttemptsFailed) =>
        /\ result = None
        /\ \E i \in 1..Len(artifacts) :
                artifacts[i].kind = "page" /\ artifacts[i].written

(***************************************************************************)
(* Claims about send_raw_prompt and initialize_chat (SpecLocate)           *)
(***************************************************************************)
\* no candidate of the list passes the filter
NoneKept(list) == \A i \in 1..Len(list) : ~Keeps(list[i])

\* the diagnostic files that were written
FilesWritten == Cardinality({i \in 1..Len(artifacts) : artifacts[i].written})

\* C11: when send_raw_prompt has returned on a page with no visible input
\* candidate in the shadow root and none in the light DOM, and no diagnostic
\* write failed, it returned None and wrote exactly one diagnostic file
C11_OneArtifact ==
    (/\ fn = "send_raw_prompt"
     /\ lpc = "done"
     /\ NoneKept(dom.shadow.list)
     /\ NoneKept(dom.light.list)
     /\ \A i \in 1..Len(artifacts) : artifacts[i].written) =>
        /\ ret = "None"
        /\ FilesWritten = 1

\* C12: every activation of the submit control comes after a commit key event
\* dispatched on the input field, and no call fails for the lack of a submit
\* control alone (no dump named no_send_button is ever attempted)
C12_TwoPaths ==
    /\ \A i \in 1..Len(events) :
            events[i] = "click" =>
                \E j \in 1..(i - 1) : events[j] = "commit_key"
    /\ \A i \in 1..Len(artifacts) : artifacts[i].prefix # "no_send_button"

\* the page read of send_raw_prompt line 311 raised
ReadRaised ==
    \E i \in 1..Len(artifacts) : artifacts[i].prefix = "send_raw_prompt_error"

\* C13: once the wait for the submit button has ended, by completion or by
\* timeout alike, initialize_chat returns True and send_raw_prompt returns the
\* page HTML it reads (None only when that read itself raises)
C13_TimeoutNotFatal ==
    \A i \in 1..Len(events) :
        events[i] \in {"completed", "timeout"} =>
            /\ fn = "initialize_chat" => ret = "True"
            /\ (fn = "send_raw_prompt" /\ ~ReadRaised) => ret = "html"

\* send_raw_prompt returned the page after its wait timed out
C13_Witness ==
    /\ fn = "send_raw_prompt"
    /\ ret = "html"
    /\ events # <<>>
    /\ events[Len(events)] = "timeout"

\* C16: against a host UI that never responds every call of initialize_chat and
\* send_raw_prompt eventually returns
C16_CallsReturn == <>(lpc = "done")

\* send_raw_prompt returned after the wait for the host and the wait for the
\* submit button both ran to their timeout
C16_Witness ==
    /\ dom.host = "absent"
    /\ fn = "send_raw_prompt"
    /\ lpc = "done"
    /\ events # <<>>
    /\ events[Len(events)] = "timeout"

\* the light-DOM search was made: its candidates are in use, or it raised
LightSearched ==
    \/ tier = "light"
    \/ \E i \in 1..Len(artifacts) : artifacts[i].prefix = "no_input"

\* the candidates of a list that pass the filter, by index
KeptIn(list) == {i \in 1..Len(list) : Keeps(list[i])}

\* C17: once the candidates are gathered, the light DOM was searched exactly
\* when the shadow host is absent or the shadow-root search gave no candidate,
\* and when some candidate of the tier used passes the filter, the element
\* chosen is the first of them in DOM order
C17_TwoTiers ==
    lpc \in {"choose", "fill", "submit", "await", "done"} =>
        /\ LightSearched <=>
                (dom.host # "ok" \/ dom.shadow.err \/ dom.shadow.list = <<>>)
        /\ (tier # "none" /\ lpc # "choose"
                /\ KeptIn(TierCands(dom, tier)) # {}) =>
              /\ ~forced
              /\ target \in KeptIn(TierCands(dom, tier))
              /\ \A i \in KeptIn(TierCands(dom, tier)) : target <= i

\* the shadow root held no candidate, the light DOM was searched and its
\* second candidate, the first that passes the filter, was chosen
C17_Witness ==
    /\ dom.host = "ok"
    /\ dom.shadow.list = <<>>
    /\ tier = "light"
    /\ Len(dom.light.list) = 2
    /\ KeptIn(dom.light.list) = {2}
    /\ target = 2
    /\ lpc = "submit"

(***************************************************************************)
(* Claims about the prompts and the final document (specification Spec)    *)
(***************************************************************************)
\* the prompts of the log that were submitted and satisfy a condition
SentContext == {i \in 1..Len(prompts) : prompts[i].sent /\ prompts[i].mode = "context"}
Extraction == {i \in 1..Len(prompts) : prompts[i].mode \in Steps}

\* C14: an extraction prompt is only ever handed over after initialize_chat
\* returned success; when it failed there is none and the run ends in an error;
\* when it succeeded the context prompt with the caption was sent exactly
\* once, before every extraction prompt, and no other prompt carries the caption
C14_InitializeFirst ==
    /\ Extraction # {} => io.init = "ok"
    /\ (io.init = "fail" /\ pc = "done") => (Extraction = {} /\ status = "error")
    /\ io.init = "fail" => SentContext = {}
    /\ io.init = "ok" =>
        /\ SentContext = {1}
        /\ \A i \in 1..Len(prompts) : prompts[i].caption => i = 1

\* a run that sent the context prompt and then all five extraction prompts
C14_Witness ==
    /\ pc = "done"
    /\ io.init = "ok"
    /\ Cardinality(Extraction) = 5
    /\ \A i \in Extraction : prompts[i].sent

\* the run got past the date stamp of line 147
Finalized == pc = "save" \/ io.save # "unset"

\* every one of the five prompts returned an object with the fields it asks for
AllFragmentsValid ==
    \A s \in Steps :
        /\ results[s].kind = "object"
        /\ \E k \in StepFields(s) : k \in DOMAIN results[s].map
        /\ s # "info" => StepFields(s) \subseteq DOMAIN results[s].map

\* C15: in every run that reaches finalization the document's datePublished is
\* the run date, whatever the merged fragments carried, and when all five
\* prompts returned valid fragments the document has recipeIngredient, name,
\* nutrition and recipeInstructions
C15_FinalDocument ==
    Finalized =>
        /\ "datePublished" \in DOMAIN full_json
        /\ full_json["datePublished"] = Today
        /\ AllFragmentsValid =>
            {"recipeIngredient", "name", "nutrition", "recipeInstructions"}
                \subseteq DOMAIN full_json

\* a finished run whose info fragment carried a datePublished of its own
C15_Witness ==
    /\ pc = "done"
    /\ status = "success"
    /\ AllFragmentsValid
    /\ "datePublished" \in DOMAIN results["info"].map
    /\ results["info"].map["datePublished"] # Today

\* C18: a fragment that is an array or a scalar never aborts the run: a run
\* in which a step returned one still gets past the last merge to the date stamp
C18_NonObjectMerges ==
    (/\ pc = "done"
     /\ \E s \in Steps : results[s].kind \in {"array", "scalar"}) =>
        Finalized

====
